---- MODULE Spec2Model ----
(***************************************************************************)
(* The HTTP endpoint table of src/main.py: fourteen handlers registered on *)
(* one application object, dispatched per request.                         *)
(*                                                                         *)
(* A request is routed (first matching route in registration order), its   *)
(* parameters are decoded and validated against the declared constraints,  *)
(* and only then the handler body runs.                                    *)
(*                                                                         *)
(* Text is a sequence of tokens.  Texts whose length or digits matter (the *)
(* query string q, sort_order, numerals) use one-character tokens.         *)
(* Decimal numbers are held in tenths (1.5 is 15).                         *)
(* An optional value is <<>> when absent and <<v>> when present.           *)
(***************************************************************************)
EXTENDS Integers, Sequences, FiniteSets, TLC

VARIABLES pc, req, hnd, args, resp, ran, tagsDefault

vars == <<pc, req, hnd, args, resp, ran, tagsDefault>>

(***************************************************************************)
(* Bounds of the model.                                                    *)
(***************************************************************************)
\* number of requests that may be in flight at once
NWorkers == 2
\* longest query string q that is tried
MaxQLen == 52

Workers == 1..NWorkers

(***************************************************************************)
(* Text, options and JSON values.                                          *)
(***************************************************************************)
None == <<>>
Some(v) == <<v>>
IsSome(o) == o # <<>>
Get(o) == o[1]

Rep(c, n) == [i \in 1..n |-> c]

Contains(s, sub) ==
  \E i \in 1..(Len(s) - Len(sub) + 1) : SubSeq(s, i, i + Len(sub) - 1) = sub

JNull == [t |-> "null"]
JNum(n) == [t |-> "num", n |-> n]
JInt(i) == [t |-> "num", n |-> 10 * i]
JStr(s) == [t |-> "str", s |-> s]
JBool(b) == [t |-> "bool", b |-> b]
JObj(f) == [t |-> "obj", o |-> f]
JArr(a) == [t |-> "arr", a |-> a]

EmptyMap == [k \in {} |-> None]

\* {**a, **b}: keys of b override keys of a
DictMerge(a, b) ==
  [k \in (DOMAIN a) \cup (DOMAIN b) |-> IF k \in DOMAIN b THEN b[k] ELSE a[k]]

(***************************************************************************)
(* Parsing of numerals carried as text (path segments, query and form      *)
(* values).                                                                *)
(***************************************************************************)
Digits == <<"0", "1", "2", "3", "4", "5", "6", "7", "8", "9">>
IsDigit(c) == \E d \in 1..10 : Digits[d] = c
DigitOf(c) == (CHOOSE d \in 1..10 : Digits[d] = c) - 1

RECURSIVE DigitsValue(_)
DigitsValue(s) ==
  IF s = <<>> THEN 0
  ELSE 10 * DigitsValue(SubSeq(s, 1, Len(s) - 1)) + DigitOf(s[Len(s)])

AllDigits(s) == s # <<>> /\ \A i \in 1..Len(s) : IsDigit(s[i])
Signed(s) == s # <<>> /\ s[1] \in {"-", "+"}
Unsigned(s) == IF Signed(s) THEN Tail(s) ELSE s
SignOf(s) == IF s # <<>> /\ s[1] = "-" THEN -1 ELSE 1

\* int(text): an optional sign and at least one digit
IntOk(s) == AllDigits(Unsigned(s))
IntOf(s) == SignOf(s) * DigitsValue(Unsigned(s))

\* float(text), in tenths: digits, optionally followed by "." and one digit
DotAt(s) == {i \in 1..Len(s) : s[i] = "."}
DecOk(s) ==
  LET u == Unsigned(s) IN
    IF DotAt(u) = {} THEN AllDigits(u)
    ELSE /\ DotAt(u) = {Len(u) - 1}
         /\ AllDigits(SubSeq(u, 1, Len(u) - 2))
         /\ IsDigit(u[Len(u)])
DecOf(s) ==
  LET u == Unsigned(s) IN
    IF DotAt(u) = {} THEN SignOf(s) * 10 * DigitsValue(u)
    ELSE SignOf(s) * (10 * DigitsValue(SubSeq(u, 1, Len(u) - 2)) + DigitOf(u[Len(u)]))

(***************************************************************************)
(* The route table, in registration order, and route matching.             *)
(***************************************************************************)
Route(m, p, h, s) == [method |-> m, path |-> p, handler |-> h, status |-> s]

ItemIdParam == "{item_id}"

\* variant: the item route declared with a trailing slash
Routes_ItemTrailingSlash ==
  << Route("GET", <<"/">>, "root", 200),
     Route("GET", <<"/", "items", "/", ItemIdParam, "/">>, "read_item", 200),
     Route("PUT", <<"/", "items", "/", ItemIdParam, "/">>, "update_item", 200),
     Route("POST", <<"/", "items", "/", "filter", "/">>, "filter_items", 200),
     Route("POST", <<"/", "items", "/", "create_with_fields", "/">>,
           "create_item_with_fields", 200),
     Route("POST", <<"/", "offers", "/">>, "create_offer", 200),
     Route("POST", <<"/", "users", "/">>, "create_user", 200),
     Route("POST", <<"/", "items", "/", "extra_data_types", "/">>,
           "create_item_with_extra_data", 200),
     Route("GET", <<"/", "items", "/", "cookies", "/">>, "read_items_from_cookies", 200),
     Route("POST", <<"/", "items", "/", "form_data", "/">>, "create_item_with_form", 200),
     Route("POST", <<"/", "items", "/", "form_and_file", "/">>,
           "create_item_with_form_and_file", 200),
     Route("GET", <<"/", "books", "/">>, "get_books", 200),
     Route("POST", <<"/", "books", "/", "create_with_author", "/">>,
           "create_book_with_author", 200),
     Route("POST", <<"/", "books", "/">>, "create_book", 201) >>

Routes ==
  << Route("GET", <<"/">>, "root", 200),
     Route("GET", <<"/", "items", "/", ItemIdParam>>, "read_item", 200),
     Route("PUT", <<"/", "items", "/", ItemIdParam>>, "update_item", 200),
     Route("POST", <<"/", "items", "/", "filter", "/">>, "filter_items", 200),
     Route("POST", <<"/", "items", "/", "create_with_fields", "/">>,
           "create_item_with_fields", 200),
     Route("POST", <<"/", "offers", "/">>, "create_offer", 200),
     Route("POST", <<"/", "users", "/">>, "create_user", 200),
     Route("POST", <<"/", "items", "/", "extra_data_types", "/">>,
           "create_item_with_extra_data", 200),
     Route("GET", <<"/", "items", "/", "cookies", "/">>, "read_items_from_cookies", 200),
     Route("POST", <<"/", "items", "/", "form_data", "/">>, "create_item_with_form", 200),
     Route("POST", <<"/", "items", "/", "form_and_file", "/">>,
           "create_item_with_form_and_file", 200),
     Route("GET", <<"/", "books", "/">>, "get_books", 200),
     Route("POST", <<"/", "books", "/", "create_with_author", "/">>,
           "create_book_with_author", 200),
     Route("POST", <<"/", "books", "/">>, "create_book", 201) >>

\* the segments of a path: the tokens after each "/"
Segments(p) ==
  LET idx == {i \in 1..Len(p) : p[i] = "/"}
      n == Cardinality(idx)
      pos(k) == CHOOSE i \in idx : Cardinality({j \in idx : j < i}) = k - 1
      end(k) == IF k = n THEN Len(p) ELSE pos(k + 1) - 1
  IN [k \in 1..n |-> SubSeq(p, pos(k) + 1, end(k))]

\* a template segment {name} matches one or more tokens, none of them "/";
\* any other template segment matches itself
PathMatches(template, p) ==
  LET ts == Segments(template)
      ps == Segments(p)
  IN /\ Len(ts) = Len(ps)
     /\ \A k \in 1..Len(ts) :
          IF ts[k] = <<ItemIdParam>> THEN ps[k] # <<>> ELSE ts[k] = ps[k]

FullMatches(r) ==
  {i \in 1..Len(Routes) :
     PathMatches(Routes[i].path, r.path) /\ Routes[i].method = r.method}
PartialMatches(r) == {i \in 1..Len(Routes) : PathMatches(Routes[i].path, r.path)}

Least(S) == CHOOSE i \in S : \A j \in S : i <= j

ToggleSlash(p) ==
  IF p[Len(p)] = "/" THEN SubSeq(p, 1, Len(p) - 1) ELSE Append(p, "/")

\* the handler a request is dispatched to, or why there is none
Resolve(r) ==
  IF FullMatches(r) # {} THEN Routes[Least(FullMatches(r))].handler
  ELSE IF PartialMatches(r) # {} THEN "405"
  ELSE IF Len(r.path) > 1 /\ PartialMatches([r EXCEPT !.path = ToggleSlash(r.path)]) # {}
       THEN "307"
  ELSE "404"

\* variant: every route answers with the default status
SuccessStatus_Default(h) == 200

SuccessStatus(h) ==
  LET i == CHOOSE j \in 1..Len(Routes) : Routes[j].handler = h IN Routes[i].status

(***************************************************************************)
(* Requests, responses and handler outcomes.                               *)
(***************************************************************************)
Req(m, p, q, b, f, c, fl) ==
  [method |-> m, path |-> p, query |-> q, body |-> b, form |-> f, cookie |-> c,
   file |-> fl]

\* the last value given for a query key (a query string is a multi-dict)
QHas(r, k) == k \in DOMAIN r.query
QLast(r, k) == r.query[k][Len(r.query[k])]
QOpt(r, k) == IF QHas(r, k) THEN Some(QLast(r, k)) ELSE None

Err(source, field, constraint) == <<source, field, constraint>>

Return(body) == [kind |-> "return", body |-> body]
RaiseHTTP(code, detail) == [kind |-> "http_exception", status |-> code, detail |-> detail]
Crash(exc) == [kind |-> "exception", exc |-> exc]

NoResp == [status |-> 0, body |-> EmptyMap]
ValidationFailure(errs) == [status |-> 422, body |-> ("detail" :> errs)]
Plain(code) == [status |-> code, body |-> EmptyMap]

\* what the framework sends for a handler outcome
Respond(h, out) ==
  CASE out.kind = "return" -> [status |-> SuccessStatus(h), body |-> out.body]
    [] out.kind = "http_exception" ->
         [status |-> out.status, body |-> ("detail" :> JStr(out.detail))]
    [] out.kind = "exception" ->
         [status |-> 500, body |-> ("detail" :> JStr(<<"Internal Server Error">>))]

(***************************************************************************)
(* Schema validation of JSON payloads.                                     *)
(***************************************************************************)
IsStr(j) == j.t = "str"
IsFloat(j) == j.t = "num" \/ (j.t = "str" /\ DecOk(j.s))
IsInt(j) == (j.t = "num" /\ j.n % 10 = 0) \/ (j.t = "str" /\ IntOk(j.s))
FloatOf(j) == IF j.t = "num" THEN j ELSE JNum(DecOf(j.s))
IntFieldOf(j) == IF j.t = "num" THEN j ELSE JInt(IntOf(j.s))

IsItemList(j) == j.t = "arr"
\* the extra data types are checked for shape only: a timestamp is date "T" time,
\* a time of day is hours ":" minutes, a duration is a number of seconds, a UUID
\* is five groups joined by "-"
IsDateTime(j) == j.t = "str" /\ Len(j.s) = 3 /\ j.s[2] = "T"
IsTime(j) == j.t = "str" /\ Len(j.s) = 3 /\ j.s[2] = ":"
IsTimeDelta(j) == IsFloat(j)
IsUUID(j) ==
  j.t = "str" /\ Len(j.s) = 9 /\ \A i \in {2, 4, 6, 8} : j.s[i] = "-"

\* the value conforms to the declared type of the field
Conforms(type, j) ==
  CASE type = "str" -> IsStr(j)
    [] type = "float" -> IsFloat(j)
    [] type = "int" -> IsInt(j)
    [] type = "list" -> IsItemList(j)
    [] type = "datetime" -> IsDateTime(j)
    [] type = "time" -> IsTime(j)
    [] type = "timedelta" -> IsTimeDelta(j)
    [] type = "UUID" -> IsUUID(j)

\* a field declared `name: T`
Required(loc, o, k, type) ==
  IF k \notin DOMAIN o THEN {Err(loc, k, "missing")}
  ELSE IF ~Conforms(type, o[k]) THEN {Err(loc, k, "type")}
  ELSE {}
\* a field declared `name: T | None = None`
Optional(loc, o, k, type) ==
  IF k \notin DOMAIN o \/ o[k].t = "null" THEN {}
  ELSE IF ~Conforms(type, o[k]) THEN {Err(loc, k, "type")}
  ELSE {}
\* a field declared `name: T | None` with no default: it must be given, and may be null
RequiredNullable(loc, o, k, type) ==
  IF k \notin DOMAIN o THEN {Err(loc, k, "missing")}
  ELSE IF o[k].t # "null" /\ ~Conforms(type, o[k]) THEN {Err(loc, k, "type")}
  ELSE {}
OrNull(o, k) == IF k \in DOMAIN o THEN o[k] ELSE JNull

ItemErrors(loc, j) ==
  IF j.t # "obj" THEN {Err(loc, "", "model_type")}
  ELSE Required(loc, j.o, "name", "str")
         \cup Optional(loc, j.o, "description", "str")
         \cup Required(loc, j.o, "price", "float")
         \cup Optional(loc, j.o, "tax", "float")
\* the decoded Item, as model_dump() gives it: the declared fields and nothing else
Item(j) ==
  [name |-> j.o["name"],
   description |-> OrNull(j.o, "description"),
   price |-> FloatOf(j.o["price"]),
   tax |-> IF OrNull(j.o, "tax").t = "null" THEN JNull ELSE FloatOf(j.o["tax"])]

(***************************************************************************)
(* GET / and GET, PUT /items/{item_id}.                                     *)
(***************************************************************************)
ItemIdMin == 1
ItemIdMax == 1000
QMinLen == 3
QMaxLen == 50

root_errors(r) == {}
root_args(r) == EmptyMap
root(a) == Return([message |-> JStr(<<"Hello World">>)])

ItemIdSegment(r) == Segments(r.path)[2]
ItemIdErrors(r) ==
  IF ~IntOk(ItemIdSegment(r)) THEN {Err("path", "item_id", "int_parsing")}
  ELSE IF IntOf(ItemIdSegment(r)) < ItemIdMin
       THEN {Err("path", "item_id", "greater_than_equal")}
  ELSE IF IntOf(ItemIdSegment(r)) > ItemIdMax
       THEN {Err("path", "item_id", "less_than_equal")}
  ELSE {}
\* variant: the upper length bound of q taken as exclusive
QErrors_ExclusiveMax(r) ==
  IF ~QHas(r, "q") THEN {}
  ELSE IF Len(QLast(r, "q")) < QMinLen THEN {Err("query", "q", "string_too_short")}
  ELSE IF Len(QLast(r, "q")) >= QMaxLen THEN {Err("query", "q", "string_too_long")}
  ELSE {}
QErrors(r) ==
  IF ~QHas(r, "q") THEN {}
  ELSE IF Len(QLast(r, "q")) < QMinLen THEN {Err("query", "q", "string_too_short")}
  ELSE IF Len(QLast(r, "q")) > QMaxLen THEN {Err("query", "q", "string_too_long")}
  ELSE {}
Asc == <<"a", "s", "c">>
Desc == <<"d", "e", "s", "c">>
SortOrderErrors(r) ==
  IF QHas(r, "sort_order") /\ QLast(r, "sort_order") \notin {Asc, Desc}
  THEN {Err("query", "sort_order", "string_pattern_mismatch")}
  ELSE {}

Truthy(o) == IsSome(o) /\ Get(o) # <<>>

read_item_errors(r) == ItemIdErrors(r) \cup QErrors(r) \cup SortOrderErrors(r)
read_item_args(r) ==
  [item_id |-> IntOf(ItemIdSegment(r)),
   q |-> QOpt(r, "q"),
   sort_order |-> IF QHas(r, "sort_order") THEN QLast(r, "sort_order") ELSE Asc]
SampleItemWithQuery == <<"This is a sample item that matches the query ">>
SampleItem == <<"This is a sample item.">>
read_item(a) ==
  Return([item_id |-> JInt(a.item_id),
          description |-> JStr(IF Truthy(a.q) THEN SampleItemWithQuery \o Get(a.q)
                               ELSE SampleItem),
          sort_order |-> JStr(a.sort_order)])

\* `item: Item = None`: the body is optional; an absent or null body decodes to None
update_item_errors(r) ==
  ItemIdErrors(r) \cup QErrors(r)
    \cup (IF IsSome(r.body) /\ Get(r.body).t # "null"
          THEN ItemErrors("body", Get(r.body)) ELSE {})
update_item_args(r) ==
  [item_id |-> IntOf(ItemIdSegment(r)),
   item |-> IF IsSome(r.body) /\ Get(r.body).t # "null"
            THEN Some(Item(Get(r.body))) ELSE None,
   q |-> QOpt(r, "q")]
\* variant: q is added to the result whether or not it was given
update_item_AlwaysQ(a) ==
  IF ~IsSome(a.item) THEN Crash("AttributeError")
  ELSE LET result == DictMerge(("item_id" :> JInt(a.item_id)), Get(a.item))
       IN Return(DictMerge(result,
                   ("q" :> IF IsSome(a.q) THEN JStr(Get(a.q)) ELSE JNull)))
update_item(a) ==
  IF ~IsSome(a.item) THEN Crash("AttributeError")
  ELSE LET result == DictMerge(("item_id" :> JInt(a.item_id)), Get(a.item))
       IN Return(IF Truthy(a.q) THEN DictMerge(result, ("q" :> JStr(Get(a.q))))
                 ELSE result)

(***************************************************************************)
(* POST /items/filter/                                                     *)
(***************************************************************************)
PriceMinDefault == 0
PriceMaxDefault == 10000

BoolTrue == {<<"true">>, <<"1">>, <<"on">>, <<"yes">>}
BoolFalse == {<<"false">>, <<"0">>, <<"off">>, <<"no">>}

FloatQueryErrors(r, k) ==
  IF QHas(r, k) /\ ~DecOk(QLast(r, k)) THEN {Err("query", k, "float_parsing")} ELSE {}

filter_items_errors(r) ==
  FloatQueryErrors(r, "price_min") \cup FloatQueryErrors(r, "price_max")
    \cup (IF QHas(r, "tax_included") /\ QLast(r, "tax_included") \notin BoolTrue \cup BoolFalse
          THEN {Err("query", "tax_included", "bool_parsing")} ELSE {})
\* an absent tags parameter gets a copy of the declared default list
filter_items_args(r, shared) ==
  [price_min |-> IF QHas(r, "price_min") THEN DecOf(QLast(r, "price_min"))
                 ELSE 10 * PriceMinDefault,
   price_max |-> IF QHas(r, "price_max") THEN DecOf(QLast(r, "price_max"))
                 ELSE 10 * PriceMaxDefault,
   tax_included |-> IF QHas(r, "tax_included") THEN QLast(r, "tax_included") \in BoolTrue
                    ELSE TRUE,
   tags |-> IF QHas(r, "tags") THEN r.query["tags"] ELSE shared]
filter_items(a) ==
  Return([price_range |-> JArr(<<JNum(a.price_min), JNum(a.price_max)>>),
          tax_included |-> JBool(a.tax_included),
          tags |-> JArr([i \in 1..Len(a.tags) |-> JStr(a.tags[i])]),
          message |-> JStr(<<"This is a filtered list of items based on the provided criteria.">>)])

(***************************************************************************)
(* POST /items/create_with_fields/                                         *)
(***************************************************************************)
ImportanceGt == 0

\* several body parameters: the body is an object with one key per parameter
BodyObject(r) == IF IsSome(r.body) /\ Get(r.body).t = "obj" THEN Get(r.body).o ELSE EmptyMap

create_item_with_fields_errors(r) ==
  LET o == BodyObject(r) IN
    (IF "item" \notin DOMAIN o THEN {Err("body", "item", "missing")}
     ELSE ItemErrors("body.item", o["item"]))
    \cup (IF Required("body", o, "importance", "int") # {}
          THEN Required("body", o, "importance", "int")
          ELSE IF IntFieldOf(o["importance"]).n <= 10 * ImportanceGt
               THEN {Err("body", "importance", "greater_than")}
          ELSE {})
create_item_with_fields_args(r) ==
  [item |-> Item(BodyObject(r)["item"]),
   importance |-> IntFieldOf(BodyObject(r)["importance"])]
create_item_with_fields(a) ==
  Return([item |-> JObj(a.item), importance |-> a.importance])

(***************************************************************************)
(* POST /offers/ and POST /users/                                          *)
(***************************************************************************)
\* a single model parameter: the body is the model, and must be given
BodyMissing(r) == ~IsSome(r.body)
MissingBody == {Err("body", "", "missing")}

OfferErrors(loc, j) ==
  IF j.t # "obj" THEN {Err(loc, "", "model_type")}
  ELSE Required(loc, j.o, "name", "str")
         \cup Required(loc, j.o, "discount", "float")
         \cup Required(loc, j.o, "items", "list")
         \cup (IF "items" \in DOMAIN j.o /\ IsItemList(j.o["items"])
               THEN UNION {ItemErrors("body.items", j.o["items"].a[i]) :
                             i \in 1..Len(j.o["items"].a)}
               ELSE {})
Offer(j) ==
  [name |-> j.o["name"],
   discount |-> FloatOf(j.o["discount"]),
   items |-> [i \in 1..Len(j.o["items"].a) |-> Item(j.o["items"].a[i])]]

create_offer_errors(r) ==
  IF BodyMissing(r) THEN MissingBody ELSE OfferErrors("body", Get(r.body))
create_offer_args(r) == [offer |-> Offer(Get(r.body))]
create_offer(a) ==
  Return([offer_name |-> a.offer.name,
          discount |-> a.offer.discount,
          items |-> JArr([i \in 1..Len(a.offer.items) |-> JObj(a.offer.items[i])])])

\* full_name is declared `str | None` with no default value
UserErrors(loc, j) ==
  IF j.t # "obj" THEN {Err(loc, "", "model_type")}
  ELSE Required(loc, j.o, "username", "str")
         \cup Required(loc, j.o, "email", "str")
         \cup RequiredNullable(loc, j.o, "full_name", "str")
User(j) ==
  [username |-> j.o["username"], email |-> j.o["email"],
   full_name |-> OrNull(j.o, "full_name")]

create_user_errors(r) ==
  IF BodyMissing(r) THEN MissingBody ELSE UserErrors("body", Get(r.body))
create_user_args(r) == [user |-> User(Get(r.body))]
create_user(a) ==
  Return([username |-> a.user.username, email |-> a.user.email,
          full_name |-> a.user.full_name])

(***************************************************************************)
(* POST /items/extra_data_types/                                           *)
(***************************************************************************)

create_item_with_extra_data_errors(r) ==
  LET o == BodyObject(r) IN
    Required("body", o, "start_time", "datetime")
      \cup Required("body", o, "end_time", "time")
      \cup Required("body", o, "repeat_every", "timedelta")
      \cup Required("body", o, "process_id", "UUID")
create_item_with_extra_data_args(r) ==
  [start_time |-> BodyObject(r)["start_time"],
   end_time |-> BodyObject(r)["end_time"],
   repeat_every |-> FloatOf(BodyObject(r)["repeat_every"]),
   process_id |-> BodyObject(r)["process_id"]]
create_item_with_extra_data(a) ==
  Return([start_time |-> a.start_time,
          end_time |-> a.end_time,
          repeat_every |-> a.repeat_every,
          process_id |-> a.process_id,
          message |-> JStr(<<"This is an item with extra data types.">>)])

(***************************************************************************)
(* GET /items/cookies/                                                     *)
(***************************************************************************)
read_items_from_cookies_errors(r) == {}
read_items_from_cookies_args(r) == [session_id |-> r.cookie]
read_items_from_cookies(a) ==
  Return([session_id |-> IF IsSome(a.session_id) THEN JStr(Get(a.session_id)) ELSE JNull,
          message |-> JStr(<<"This is the session ID obtained from the cookies.">>)])

(***************************************************************************)
(* POST /items/form_data/ and POST /items/form_and_file/                   *)
(***************************************************************************)
\* a form field that is absent or empty counts as not given
FormGiven(r, k) == k \in DOMAIN r.form /\ r.form[k] # <<>>
FormOpt(r, k) == IF FormGiven(r, k) THEN Some(r.form[k]) ELSE None

FormErrors(r) ==
  (IF ~FormGiven(r, "name") THEN {Err("body", "name", "missing")} ELSE {})
    \cup (IF ~FormGiven(r, "price") THEN {Err("body", "price", "missing")}
          ELSE IF ~DecOk(r.form["price"]) THEN {Err("body", "price", "float_parsing")}
          ELSE {})
    \cup (IF FormGiven(r, "tax") /\ ~DecOk(r.form["tax"])
          THEN {Err("body", "tax", "float_parsing")} ELSE {})
FormArgs(r) ==
  [name |-> r.form["name"],
   description |-> FormOpt(r, "description"),
   price |-> DecOf(r.form["price"]),
   tax |-> IF FormGiven(r, "tax") THEN Some(DecOf(r.form["tax"])) ELSE None]
FormEcho(a) ==
  [name |-> JStr(a.name),
   description |-> IF IsSome(a.description) THEN JStr(Get(a.description)) ELSE JNull,
   price |-> JNum(a.price),
   tax |-> IF IsSome(a.tax) THEN JNum(Get(a.tax)) ELSE JNull]

create_item_with_form_errors(r) == FormErrors(r)
create_item_with_form_args(r) == FormArgs(r)
create_item_with_form(a) ==
  Return(DictMerge(FormEcho(a),
                   [message |-> JStr(<<"This is an item created using form data.">>)]))

NegativePrice == <<"Price cannot be negative">>
NoFile == <<"No file uploaded">>

create_item_with_form_and_file_errors(r) ==
  FormErrors(r) \cup (IF ~IsSome(r.file) THEN {Err("body", "file", "missing")} ELSE {})
create_item_with_form_and_file_args(r) ==
  DictMerge(FormArgs(r), [file |-> Get(r.file)])
\* variant: a price of zero rejected as well
create_item_with_form_and_file_ZeroPrice(a) ==
  IF a.price <= 0 THEN RaiseHTTP(400, NegativePrice)
  ELSE IF a.file.filename = <<>> THEN RaiseHTTP(400, NoFile)
  ELSE Return(DictMerge(FormEcho(a),
                [filename |-> JStr(a.file.filename),
                 message |-> JStr(<<"This is an item created using form data and a file.">>)]))
\* variant: the filename checked before the price
create_item_with_form_and_file_FileFirst(a) ==
  IF a.file.filename = <<>> THEN RaiseHTTP(400, NoFile)
  ELSE IF a.price < 0 THEN RaiseHTTP(400, NegativePrice)
  ELSE Return(DictMerge(FormEcho(a),
                [filename |-> JStr(a.file.filename),
                 message |-> JStr(<<"This is an item created using form data and a file.">>)]))
create_item_with_form_and_file(a) ==
  IF a.price < 0 THEN RaiseHTTP(400, NegativePrice)
  ELSE IF a.file.filename = <<>> THEN RaiseHTTP(400, NoFile)
  ELSE Return(DictMerge(FormEcho(a),
                [filename |-> JStr(a.file.filename),
                 message |-> JStr(<<"This is an item created using form data and a file.">>)]))

(***************************************************************************)
(* GET /books/, POST /books/create_with_author/ and POST /books/           *)
(***************************************************************************)
AuthorErrors(loc, j) ==
  IF j.t # "obj" THEN {Err(loc, "", "model_type")}
  ELSE Required(loc, j.o, "name", "str") \cup Required(loc, j.o, "age", "int")
Author(j) == [name |-> j.o["name"], age |-> IntFieldOf(j.o["age"])]

BookErrors(loc, j) ==
  IF j.t # "obj" THEN {Err(loc, "", "model_type")}
  ELSE Required(loc, j.o, "title", "str")
         \cup (IF "author" \notin DOMAIN j.o THEN {Err(loc, "author", "missing")}
               ELSE AuthorErrors("body.author", j.o["author"]))
         \cup Optional(loc, j.o, "summary", "str")
Book(j) ==
  [title |-> j.o["title"], author |-> Author(j.o["author"]),
   summary |-> OrNull(j.o, "summary")]
BookEcho(b) ==
  [title |-> b.title, author |-> JObj(b.author), summary |-> b.summary]

get_books_errors(r) == {}
get_books_args(r) == EmptyMap
get_books(a) ==
  Return(<< JObj(BookEcho(Book(JObj(
               [title |-> JStr(<<"Book 1">>),
                author |-> JObj([name |-> JStr(<<"Author 1">>), age |-> JInt(45)]),
                summary |-> JStr(<<"A great book about...">>)])))),
            JObj(BookEcho(Book(JObj(
               [title |-> JStr(<<"Book 2">>),
                author |-> JObj([name |-> JStr(<<"Author 2">>), age |-> JInt(38)]),
                summary |-> JStr(<<"An interesting journey of...">>)])))) >>)

create_book_with_author_errors(r) ==
  IF BodyMissing(r) THEN MissingBody ELSE BookErrors("body", Get(r.body))
create_book_with_author_args(r) == [book |-> Book(Get(r.body))]
create_book_with_author(a) == Return(BookEcho(a.book))

create_book_errors(r) ==
  IF BodyMissing(r) THEN MissingBody ELSE BookErrors("body", Get(r.body))
create_book_args(r) == [book |-> Book(Get(r.body))]
create_book(a) == Return(BookEcho(a.book))

(***************************************************************************)
(* Dispatch: the declared parameters of each handler, and its body.        *)
(***************************************************************************)
Handlers == {Routes[i].handler : i \in 1..Len(Routes)}

Errors(h, r) ==
  CASE h = "root" -> root_errors(r)
    [] h = "read_item" -> read_item_errors(r)
    [] h = "update_item" -> update_item_errors(r)
    [] h = "filter_items" -> filter_items_errors(r)
    [] h = "create_item_with_fields" -> create_item_with_fields_errors(r)
    [] h = "create_offer" -> create_offer_errors(r)
    [] h = "create_user" -> create_user_errors(r)
    [] h = "create_item_with_extra_data" -> create_item_with_extra_data_errors(r)
    [] h = "read_items_from_cookies" -> read_items_from_cookies_errors(r)
    [] h = "create_item_with_form" -> create_item_with_form_errors(r)
    [] h = "create_item_with_form_and_file" -> create_item_with_form_and_file_errors(r)
    [] h = "get_books" -> get_books_errors(r)
    [] h = "create_book_with_author" -> create_book_with_author_errors(r)
    [] h = "create_book" -> create_book_errors(r)

Args(h, r, shared) ==
  CASE h = "root" -> root_args(r)
    [] h = "read_item" -> read_item_args(r)
    [] h = "update_item" -> update_item_args(r)
    [] h = "filter_items" -> filter_items_args(r, shared)
    [] h = "create_item_with_fields" -> create_item_with_fields_args(r)
    [] h = "create_offer" -> create_offer_args(r)
    [] h = "create_user" -> create_user_args(r)
    [] h = "create_item_with_extra_data" -> create_item_with_extra_data_args(r)
    [] h = "read_items_from_cookies" -> read_items_from_cookies_args(r)
    [] h = "create_item_with_form" -> create_item_with_form_args(r)
    [] h = "create_item_with_form_and_file" -> create_item_with_form_and_file_args(r)
    [] h = "get_books" -> get_books_args(r)
    [] h = "create_book_with_author" -> create_book_with_author_args(r)
    [] h = "create_book" -> create_book_args(r)

Call(h, a) ==
  CASE h = "root" -> root(a)
    [] h = "read_item" -> read_item(a)
    [] h = "update_item" -> update_item(a)
    [] h = "filter_items" -> filter_items(a)
    [] h = "create_item_with_fields" -> create_item_with_fields(a)
    [] h = "create_offer" -> create_offer(a)
    [] h = "create_user" -> create_user(a)
    [] h = "create_item_with_extra_data" -> create_item_with_extra_data(a)
    [] h = "read_items_from_cookies" -> read_items_from_cookies(a)
    [] h = "create_item_with_form" -> create_item_with_form(a)
    [] h = "create_item_with_form_and_file" -> create_item_with_form_and_file(a)
    [] h = "get_books" -> get_books(a)
    [] h = "create_book_with_author" -> create_book_with_author(a)
    [] h = "create_book" -> create_book(a)

\* variant: filter_items appends to the tags list it was given, and an absent
\* tags parameter is the declared default list itself
SharedAfter_AppendsTag(h, a, shared) ==
  IF h = "filter_items" /\ a.tags = shared /\ Len(shared) < NWorkers
  THEN Append(shared, <<"seen">>) ELSE shared

\* no handler body writes to the application's shared objects
SharedAfter(h, a, shared) == shared

(***************************************************************************)
(* The requests that are tried.                                            *)
(***************************************************************************)
MapOpt(k, o) == IF IsSome(o) THEN (k :> <<Get(o)>>) ELSE EmptyMap

ItemsPrefix == <<"/", "items", "/">>
ItemIdTexts ==
  { <<"0">>, <<"1">>, <<"7">>, <<"1", "0", "0", "0">>, <<"1", "0", "0", "1">>,
    <<"-", "1">>, <<"a", "b", "c">> }
QLens == (0..4) \cup ((QMaxLen - 1)..MaxQLen)
QTexts == {Rep("a", n) : n \in QLens} \cup {<<"p", "e", "n">>}
QOpts == {None} \cup {Some(t) : t \in QTexts}
SortOpts == {None, Some(Asc), Some(Desc), Some(<<"d", "o", "w", "n">>)}

Pen == JStr(<<"Pen">>)
ItemBodies ==
  { JObj([name |-> Pen, price |-> JNum(15)]),
    JObj([name |-> Pen, description |-> JStr(<<"A pen">>), price |-> JNum(15),
          tax |-> JNum(2)]),
    JObj([name |-> Pen, description |-> JNull, price |-> JStr(<<"2", ".", "5">>)]),
    JObj([name |-> Pen, price |-> JNum(15), item_id |-> JInt(99)]),
    JObj([price |-> JNum(15)]),
    JObj([name |-> JNum(10), price |-> JNum(15)]),
    JObj([name |-> Pen, price |-> JStr(<<"c", "h", "e", "a", "p">>)]),
    JObj([name |-> Pen]) }

RootRequests == {Req("GET", <<"/">>, EmptyMap, None, EmptyMap, None, None)}
ReadItemRequests ==
  {Req("GET", ItemsPrefix \o id, DictMerge(MapOpt("q", q), MapOpt("sort_order", so)),
       None, EmptyMap, None, None) : id \in ItemIdTexts, q \in QOpts, so \in SortOpts}
UpdateItemRequests ==
  {Req("PUT", ItemsPrefix \o id, MapOpt("q", q), b, EmptyMap, None, None) :
     id \in ItemIdTexts,
     q \in {None, Some(Rep("a", 2)), Some(<<"p", "e", "n">>)},
     b \in {None, Some(JNull)} \cup {Some(j) : j \in ItemBodies}}

Text(tok) == <<tok>>
MapOf(k, o) == IF IsSome(o) THEN (k :> Get(o)) ELSE EmptyMap
Merge3(a, b, c) == DictMerge(DictMerge(a, b), c)
Merge4(a, b, c, d) == DictMerge(Merge3(a, b, c), d)

Post(p, q, b) == Req("POST", p, q, b, EmptyMap, None, None)

FilterRequests ==
  {Post(<<"/", "items", "/", "filter", "/">>,
        Merge3(MapOpt("price_min", pm), MapOpt("tax_included", ti), MapOf("tags", tg)),
        None) :
     pm \in {None, Some(<<"5">>), Some(<<"2", ".", "5">>), Some(Text("abc"))},
     ti \in {None, Some(Text("false")), Some(Text("maybe"))},
     tg \in {None, Some(<<Text("red")>>), Some(<<Text("red"), Text("blue")>>)}}

PenItem == JObj([name |-> Pen, price |-> JNum(15)])
FieldsRequests ==
  {Post(<<"/", "items", "/", "create_with_fields", "/">>, EmptyMap, b) :
     b \in {None,
            Some(JObj([item |-> PenItem, importance |-> JInt(5)])),
            Some(JObj([item |-> PenItem, importance |-> JInt(1)])),
            Some(JObj([item |-> PenItem, importance |-> JInt(0)])),
            Some(JObj([item |-> PenItem, importance |-> JInt(-1)])),
            Some(JObj([item |-> PenItem, importance |-> JNum(15)])),
            Some(JObj([item |-> JObj([name |-> Pen]), importance |-> JInt(5)])),
            Some(JObj([importance |-> JInt(5)])),
            Some(JObj([item |-> PenItem]))}}

OfferRequests ==
  {Post(<<"/", "offers", "/">>, EmptyMap, b) :
     b \in {None, Some(JNull),
            Some(JObj([name |-> JStr(<<"Sale">>), discount |-> JNum(5), items |-> JArr(<<>>)])),
            Some(JObj([name |-> JStr(<<"Sale">>), discount |-> JNum(5),
                       items |-> JArr(<<PenItem, PenItem>>)])),
            Some(JObj([name |-> JStr(<<"Sale">>), items |-> JArr(<<PenItem>>)])),
            Some(JObj([name |-> JStr(<<"Sale">>), discount |-> JNum(5),
                       items |-> JArr(<<PenItem, JObj([name |-> Pen])>>)]))}}

Ann == JStr(<<"ann">>)
Mail == JStr(<<"ann@example.org">>)
UserRequests ==
  {Post(<<"/", "users", "/">>, EmptyMap, b) :
     b \in {None,
            Some(JObj([username |-> Ann, email |-> Mail, full_name |-> JStr(<<"Ann Lee">>)])),
            Some(JObj([username |-> Ann, email |-> Mail, full_name |-> JNull])),
            Some(JObj([username |-> Ann, email |-> Mail])),
            Some(JObj([username |-> Ann, full_name |-> JNull])),
            Some(JObj([username |-> Ann, email |-> Mail, full_name |-> JNum(10)]))}}

StartTime == JStr(<<"2024-01-01", "T", "10:00:00">>)
EndTime == JStr(<<"18", ":", "30">>)
ProcessId == JStr(<<"123e4567", "-", "e89b", "-", "12d3", "-", "a456", "-", "426614174000">>)
ExtraRequests ==
  {Post(<<"/", "items", "/", "extra_data_types", "/">>, EmptyMap, b) :
     b \in {None,
            Some(JObj([start_time |-> StartTime, end_time |-> EndTime,
                       repeat_every |-> JInt(3600), process_id |-> ProcessId])),
            Some(JObj([start_time |-> StartTime, end_time |-> EndTime,
                       repeat_every |-> JInt(3600), process_id |-> JStr(<<"nope">>)])),
            Some(JObj([start_time |-> EndTime, end_time |-> EndTime,
                       repeat_every |-> JInt(3600), process_id |-> ProcessId])),
            Some(JObj([start_time |-> StartTime, end_time |-> EndTime,
                       process_id |-> ProcessId]))}}

CookiesPath == <<"/", "items", "/", "cookies", "/">>
CookieRequests ==
  {Req("GET", p, EmptyMap, None, EmptyMap, c, None) :
     p \in {CookiesPath, <<"/", "items", "/", "cookies">>},
     c \in {None, Some(<<"abc123">>), Some(<<>>)}}

FormNames == {None, Some(<<>>), Some(<<"Pen">>)}
FormPrices ==
  {None, Some(<<"5">>), Some(<<"0">>), Some(<<"-", "1">>), Some(<<"-", "0", ".", "5">>),
   Some(<<"a", "b", "c">>)}
FormOf(n, pr, d, t) ==
  Merge4(MapOf("name", n), MapOf("price", pr), MapOf("description", d), MapOf("tax", t))
FormRequests ==
  {Req("POST", <<"/", "items", "/", "form_data", "/">>, EmptyMap, None,
       FormOf(n, pr, d, t), None, None) :
     n \in FormNames, pr \in FormPrices, d \in {None, Some(<<"A pen">>)},
     t \in {None, Some(<<"0", ".", "5">>)}}
Files == {None, Some([filename |-> <<>>]), Some([filename |-> <<"a.txt">>])}
FormAndFileRequests ==
  {Req("POST", <<"/", "items", "/", "form_and_file", "/">>, EmptyMap, None,
       FormOf(n, pr, d, d), None, fl) :
     n \in FormNames, pr \in FormPrices, d \in {None, Some(<<"0", ".", "5">>)},
     fl \in Files}

Author1 == JObj([name |-> JStr(<<"Author 1">>), age |-> JInt(45)])
BookBodies ==
  {None, Some(JNull),
   Some(JObj([title |-> JStr(<<"Book 1">>), author |-> Author1,
              summary |-> JStr(<<"A great book about...">>)])),
   Some(JObj([title |-> JStr(<<"Book 1">>), author |-> Author1])),
   Some(JObj([title |-> JStr(<<"Book 1">>),
              author |-> JObj([name |-> JStr(<<"Author 1">>), age |-> JStr(<<"4", "5">>)])])),
   Some(JObj([author |-> Author1])),
   Some(JObj([title |-> JStr(<<"Book 1">>)])),
   Some(JObj([title |-> JStr(<<"Book 1">>), author |-> JObj([age |-> JInt(45)])])),
   Some(JObj([title |-> JStr(<<"Book 1">>), author |-> JObj([name |-> JStr(<<"Author 1">>)])])),
   Some(JObj([title |-> JStr(<<"Book 1">>),
              author |-> JObj([name |-> JStr(<<"Author 1">>), age |-> JNum(455)])]))}
BooksPath == <<"/", "books", "/">>
CreateWithAuthorPath == <<"/", "books", "/", "create_with_author", "/">>
BookRequests ==
  {Post(p, EmptyMap, b) : p \in {BooksPath, CreateWithAuthorPath}, b \in BookBodies}
    \cup {Req("GET", BooksPath, q, None, EmptyMap, None, None) :
            q \in {EmptyMap, MapOpt("q", Some(<<"x">>))}}

UnroutedRequests ==
  {Req("GET", <<"/", "books">>, EmptyMap, None, EmptyMap, None, None),
   Req("GET", <<"/", "nothing">>, EmptyMap, None, EmptyMap, None, None),
   Req("GET", <<"/", "items", "/", "filter", "/">>, EmptyMap, None, EmptyMap, None, None),
   Req("PUT", CookiesPath, EmptyMap, None, EmptyMap, None, None)}

Requests ==
  RootRequests \cup ReadItemRequests \cup UpdateItemRequests \cup FilterRequests
    \cup FieldsRequests \cup OfferRequests \cup UserRequests \cup ExtraRequests
    \cup CookieRequests \cup FormRequests \cup FormAndFileRequests \cup BookRequests
    \cup UnroutedRequests

\* a sample of the requests, some on every kind of endpoint, for the interleavings
ConcRequests ==
  {Post(<<"/", "items", "/", "filter", "/">>, MapOf("tags", tg), None) :
     tg \in {None, Some(<<Text("red")>>)}}
    \cup RootRequests
    \cup {Req("GET", ItemsPrefix \o <<"7">>, EmptyMap, None, EmptyMap, None, None),
          Req("PUT", ItemsPrefix \o <<"7">>, EmptyMap, None, EmptyMap, None, None),
          Req("GET", ItemsPrefix \o <<"0">>, EmptyMap, None, EmptyMap, None, None),
          Req("GET", <<"/", "nothing">>, EmptyMap, None, EmptyMap, None, None),
          Req("GET", CookiesPath, EmptyMap, None, EmptyMap, Some(<<"abc123">>), None),
          Req("GET", BooksPath, EmptyMap, None, EmptyMap, None, None),
          Req("POST", <<"/", "items", "/", "form_and_file", "/">>, EmptyMap, None,
              FormOf(Some(<<"Pen">>), Some(<<"5">>), None, None), None,
              Some([filename |-> <<"a.txt">>]))}

NoReq == Req("", <<"/">>, EmptyMap, None, EmptyMap, None, None)

(***************************************************************************)
(* The state machine: each worker takes a request through routing, decode  *)
(* and validation, and the handler body.                                   *)
(***************************************************************************)
Init ==
  /\ pc = [w \in Workers |-> "idle"]
  /\ req = [w \in Workers |-> NoReq]
  /\ hnd = [w \in Workers |-> "none"]
  /\ args = [w \in Workers |-> EmptyMap]
  /\ resp = [w \in Workers |-> NoResp]
  /\ ran = [w \in Workers |-> FALSE]
  /\ tagsDefault = <<>>

\* a request arrives and is matched against the route table
Receive(w, r) ==
  /\ pc[w] = "idle"
  /\ pc' = [pc EXCEPT ![w] = "routed"]
  /\ req' = [req EXCEPT ![w] = r]
  /\ hnd' = [hnd EXCEPT ![w] = Resolve(r)]
  /\ args' = [args EXCEPT ![w] = EmptyMap]
  /\ resp' = [resp EXCEPT ![w] = NoResp]
  /\ ran' = [ran EXCEPT ![w] = FALSE]
  /\ UNCHANGED tagsDefault

\* no route serves the request
NoRoute(w) ==
  /\ pc[w] = "routed"
  /\ hnd[w] \notin Handlers
  /\ pc' = [pc EXCEPT ![w] = "done"]
  /\ resp' = [resp EXCEPT ![w] =
                Plain(CASE hnd[w] = "405" -> 405 [] hnd[w] = "307" -> 307
                        [] OTHER -> 404)]
  /\ UNCHANGED <<req, hnd, args, ran, tagsDefault>>

\* a declared constraint fails: the handler is not called
Reject(w) ==
  /\ pc[w] = "routed"
  /\ hnd[w] \in Handlers
  /\ Errors(hnd[w], req[w]) # {}
  /\ pc' = [pc EXCEPT ![w] = "done"]
  /\ resp' = [resp EXCEPT ![w] = ValidationFailure(Errors(hnd[w], req[w]))]
  /\ UNCHANGED <<req, hnd, args, ran, tagsDefault>>

\* every parameter decodes: the handler's arguments are built
Accept(w) ==
  /\ pc[w] = "routed"
  /\ hnd[w] \in Handlers
  /\ Errors(hnd[w], req[w]) = {}
  /\ pc' = [pc EXCEPT ![w] = "ready"]
  /\ args' = [args EXCEPT ![w] = Args(hnd[w], req[w], tagsDefault)]
  /\ UNCHANGED <<req, hnd, resp, ran, tagsDefault>>

\* the handler body runs and its outcome is sent
Run(w) ==
  /\ pc[w] = "ready"
  /\ pc' = [pc EXCEPT ![w] = "done"]
  /\ ran' = [ran EXCEPT ![w] = TRUE]
  /\ resp' = [resp EXCEPT ![w] = Respond(hnd[w], Call(hnd[w], args[w]))]
  /\ tagsDefault' = SharedAfter(hnd[w], args[w], tagsDefault)
  /\ UNCHANGED <<req, hnd, args>>

\* the response has been sent: everything built for the request is discarded
Finish(w) ==
  /\ pc[w] = "done"
  /\ pc' = [pc EXCEPT ![w] = "idle"]
  /\ req' = [req EXCEPT ![w] = NoReq]
  /\ hnd' = [hnd EXCEPT ![w] = "none"]
  /\ args' = [args EXCEPT ![w] = EmptyMap]
  /\ resp' = [resp EXCEPT ![w] = NoResp]
  /\ ran' = [ran EXCEPT ![w] = FALSE]
  /\ UNCHANGED tagsDefault

\* one request at a time, over every request that is tried
Next ==
  \/ \E r \in Requests : Receive(1, r)
  \/ NoRoute(1)
  \/ Reject(1)
  \/ Accept(1)
  \/ Run(1)
  \/ Finish(1)

Spec == Init /\ [][Next]_vars

\* requests in flight on every worker, interleaved at each step
NextConc ==
  \E w \in Workers :
    \/ \E r \in ConcRequests : Receive(w, r)
    \/ NoRoute(w)
    \/ Reject(w)
    \/ Accept(w)
    \/ Run(w)
    \/ Finish(w)

SpecConc == Init /\ [][NextConc]_vars

(***************************************************************************)
(* Properties.                                                             *)
(***************************************************************************)
Done(w) == pc[w] = "done"
Served(w) == Done(w) /\ hnd[w] \in Handlers
Rejected(w) == resp[w].status = 422 /\ ~ran[w]
Field(w, k) == resp[w].body[k]
HasField(w, k) == k \in DOMAIN resp[w].body
PathItemId(w) == IntOf(Segments(req[w].path)[2])
PathItemIdIsInt(w) == IntOk(Segments(req[w].path)[2])
OnItemRoute(w) == Served(w) /\ hnd[w] \in {"read_item", "update_item"}

\* C1: every request served by an endpoint ends as a validation failure sent
\* before the handler ran, as the 400 rejection of POST /items/form_and_file/,
\* or as the handler's normal output; none ends as a server error.
C1_NoServerError ==
  \A w \in Workers :
    Served(w) =>
      \/ Rejected(w)
      \/ /\ ran[w]
         /\ resp[w].status = 400
         /\ hnd[w] = "create_item_with_form_and_file"
      \/ /\ ran[w]
         /\ resp[w].status = SuccessStatus(hnd[w])

\* C2: on GET and PUT /items/{item_id}, an integer item_id outside 1..1000 is a
\* validation failure and the handler does not run; an item_id inside 1..1000
\* with every other parameter accepted runs the handler, and the response's
\* item_id is the path value.
C2_ItemIdRange ==
  \A w \in Workers :
    (OnItemRoute(w) /\ PathItemIdIsInt(w)) =>
      /\ (PathItemId(w) < 1 \/ PathItemId(w) > 1000) => Rejected(w)
      /\ (PathItemId(w) >= 1 /\ PathItemId(w) <= 1000 /\ Errors(hnd[w], req[w]) = {}) =>
           /\ ran[w]
           /\ HasField(w, "item_id")
           /\ Field(w, "item_id") = JInt(PathItemId(w))

\* C3: on GET /items/{item_id} with item_id and sort_order valid, a given q
\* shorter than 3 or longer than 50 is rejected; a given q of length 3..50 is
\* contained verbatim in the returned description; with no q the description
\* is the fixed text.
GivenQ(w) == QLast(req[w], "q")
C3_QueryEcho ==
  \A w \in Workers :
    (Served(w) /\ hnd[w] = "read_item" /\ ItemIdErrors(req[w]) = {}
       /\ SortOrderErrors(req[w]) = {}) =>
      IF ~QHas(req[w], "q")
      THEN /\ resp[w].status = 200
           /\ Field(w, "description") = JStr(<<"This is a sample item.">>)
      ELSE IF Len(GivenQ(w)) < 3 \/ Len(GivenQ(w)) > 50
      THEN Rejected(w)
      ELSE /\ resp[w].status = 200
           /\ ran[w]
           /\ Contains(Field(w, "description").s, GivenQ(w))
C3_Witness ==
  \E w \in Workers :
    /\ Served(w) /\ hnd[w] = "read_item" /\ resp[w].status = 200
    /\ QHas(req[w], "q") /\ Len(GivenQ(w)) = 50
    /\ Contains(Field(w, "description").s, GivenQ(w))

\* C4: on PUT /items/{item_id} with a valid item_id and a valid Item body, the
\* response holds exactly item_id and the four Item fields, omitted optional
\* fields are null, item_id is the path value whatever the body holds, and
\* there is a q key exactly when q was given, holding the given q.
ItemKeys == {"name", "description", "price", "tax"}
GivenItem(w) == Get(req[w].body).o
ValidItemBody(w) ==
  /\ IsSome(req[w].body)
  /\ Get(req[w].body).t = "obj"
  /\ ItemErrors("body", Get(req[w].body)) = {}
C4_UpdateItem ==
  \A w \in Workers :
    (Served(w) /\ hnd[w] = "update_item" /\ ItemIdErrors(req[w]) = {}
       /\ QErrors(req[w]) = {} /\ ValidItemBody(w)) =>
      /\ resp[w].status = 200
      /\ DOMAIN resp[w].body =
           {"item_id"} \cup ItemKeys \cup (IF QHas(req[w], "q") THEN {"q"} ELSE {})
      /\ Field(w, "item_id") = JInt(PathItemId(w))
      /\ Field(w, "name") = GivenItem(w)["name"]
      /\ \A k \in {"description", "tax"} :
           k \notin DOMAIN GivenItem(w) => Field(w, k) = JNull
      /\ QHas(req[w], "q") => Field(w, "q") = JStr(GivenQ(w))
C4_Witness ==
  \E w \in Workers :
    /\ Served(w) /\ hnd[w] = "update_item" /\ resp[w].status = 200
    /\ "item_id" \in DOMAIN GivenItem(w)
    /\ GivenItem(w)["item_id"] # JInt(PathItemId(w))
    /\ "tax" \notin DOMAIN GivenItem(w)
    /\ ~QHas(req[w], "q")
    /\ DOMAIN resp[w].body = {"item_id"} \cup ItemKeys

\* C5: on POST /items/form_and_file/ with the required form fields and a file
\* given: a negative price is answered 400 with the negative-price message; a
\* price of at least zero and an empty filename is answered 400 with the
\* no-file message; a price of at least zero and a named file is answered 200
\* with name, description, price, tax and the filename echoed.
OnFormAndFile(w) == Served(w) /\ hnd[w] = "create_item_with_form_and_file"
FormFieldsGiven(w) ==
  /\ FormGiven(req[w], "name")
  /\ FormGiven(req[w], "price") /\ DecOk(req[w].form["price"])
  /\ FormGiven(req[w], "tax") => DecOk(req[w].form["tax"])
GivenPrice(w) == DecOf(req[w].form["price"])
GivenFilename(w) == Get(req[w].file).filename
Detail(w) == Field(w, "detail").s
C5_FormAndFile ==
  \A w \in Workers :
    (OnFormAndFile(w) /\ FormFieldsGiven(w) /\ IsSome(req[w].file)) =>
      IF GivenPrice(w) < 0
      THEN resp[w].status = 400 /\ Detail(w) = <<"Price cannot be negative">>
      ELSE IF GivenFilename(w) = <<>>
      THEN resp[w].status = 400 /\ Detail(w) = <<"No file uploaded">>
      ELSE /\ resp[w].status = 200
           /\ Field(w, "name") = JStr(req[w].form["name"])
           /\ Field(w, "price") = JNum(GivenPrice(w))
           /\ Field(w, "filename") = JStr(GivenFilename(w))
           /\ Field(w, "description") =
                IF FormGiven(req[w], "description") THEN JStr(req[w].form["description"])
                ELSE JNull
           /\ Field(w, "tax") =
                IF FormGiven(req[w], "tax") THEN JNum(DecOf(req[w].form["tax"]))
                ELSE JNull
C5_Witness ==
  \E w \in Workers :
    /\ OnFormAndFile(w) /\ resp[w].status = 200
    /\ GivenPrice(w) = 0
    /\ Field(w, "filename") = JStr(<<"a.txt">>)

\* C6: a payload that gives every required field and leaves out an optional
\* one is accepted and the field decodes to null, for Item.description,
\* Item.tax, Book.summary and User.full_name alike.
OmitsOnly(w, required, optional) ==
  /\ IsSome(req[w].body)
  /\ Get(req[w].body).t = "obj"
  /\ required \subseteq DOMAIN Get(req[w].body).o
  /\ optional \notin DOMAIN Get(req[w].body).o
C6_OptionalOmitted ==
  \A w \in Workers :
    /\ \A k \in {"description", "tax"} :
         (Served(w) /\ hnd[w] = "update_item" /\ ItemIdErrors(req[w]) = {}
            /\ QErrors(req[w]) = {}
            /\ OmitsOnly(w, {"name", "price"}, k)
            /\ IsStr(GivenItem(w)["name"]) /\ IsFloat(GivenItem(w)["price"])) =>
           (resp[w].status = 200 /\ Field(w, k) = JNull)
    /\ (Served(w) /\ hnd[w] = "create_book" /\ OmitsOnly(w, {"title", "author"}, "summary")
          /\ BookErrors("body", Get(req[w].body)) = {}) =>
         (resp[w].status = 201 /\ Field(w, "summary") = JNull)
    /\ (Served(w) /\ hnd[w] = "create_user" /\ OmitsOnly(w, {"username", "email"}, "full_name")
          /\ IsStr(Get(req[w].body).o["username"]) /\ IsStr(Get(req[w].body).o["email"])) =>
         (resp[w].status = 200 /\ Field(w, "full_name") = JNull)

\* C7: the declared default of the tags parameter is never changed, and two
\* requests that are the same get the same response, whatever was handled
\* before them or is in flight beside them.
C7_Stateless ==
  /\ tagsDefault = <<>>
  /\ \A w1, w2 \in Workers :
       (Done(w1) /\ Done(w2) /\ req[w1] = req[w2]) => resp[w1] = resp[w2]
C7_Witness ==
  \E w1, w2 \in Workers :
    /\ w1 # w2
    /\ Done(w1) /\ pc[w2] = "ready"
    /\ hnd[w1] = "filter_items" /\ hnd[w2] = "filter_items"
    /\ ran[w1]
    /\ ~QHas(req[w1], "tags") /\ req[w1] = req[w2]

\* C8: GET /items/cookies/ is served by the cookie handler, which returns the
\* session_id cookie, or null when there is none, with the fixed message; the
\* item route declared before it does not take the request.
C8_CookiesRoute ==
  \A w \in Workers :
    (Done(w) /\ req[w].method = "GET" /\ req[w].path = <<"/", "items", "/", "cookies", "/">>) =>
      /\ hnd[w] = "read_items_from_cookies"
      /\ ran[w]
      /\ resp[w].status = 200
      /\ Field(w, "session_id") =
           IF IsSome(req[w].cookie) THEN JStr(Get(req[w].cookie)) ELSE JNull
      /\ Field(w, "message") = JStr(<<"This is the session ID obtained from the cookies.">>)
C8_Witness ==
  \E w \in Workers :
    /\ Done(w) /\ req[w].method = "GET"
    /\ req[w].path = <<"/", "items", "/", "cookies", "/">>
    /\ IsSome(req[w].cookie)
    /\ Field(w, "session_id") = JStr(<<"abc123">>)

\* C9: POST /books/ with a valid Book body answers 201 and echoes title,
\* author (name and age) and summary; POST /books/create_with_author/ echoes
\* the same with status 200; a body without title, without author, or whose
\* author lacks name or age is a validation failure on both.
OnBookPost(w) ==
  /\ Done(w) /\ req[w].method = "POST"
  /\ req[w].path \in {<<"/", "books", "/">>, <<"/", "books", "/", "create_with_author", "/">>}
  /\ IsSome(req[w].body) /\ Get(req[w].body).t = "obj"
GivenBook(w) == Get(req[w].body).o
IncompleteBook(w) ==
  \/ "title" \notin DOMAIN GivenBook(w)
  \/ "author" \notin DOMAIN GivenBook(w)
  \/ /\ GivenBook(w)["author"].t = "obj"
     /\ ~({"name", "age"} \subseteq DOMAIN GivenBook(w)["author"].o)
C9_CreateBook ==
  \A w \in Workers :
    OnBookPost(w) =>
      /\ IncompleteBook(w) => Rejected(w)
      /\ BookErrors("body", Get(req[w].body)) = {} =>
           /\ resp[w].status = IF req[w].path = <<"/", "books", "/">> THEN 201 ELSE 200
           /\ Field(w, "title") = GivenBook(w)["title"]
           /\ Field(w, "author").o["name"] = GivenBook(w)["author"].o["name"]
           /\ Field(w, "author").o["age"] = IntFieldOf(GivenBook(w)["author"].o["age"])
           /\ Field(w, "summary") = OrNull(GivenBook(w), "summary")
      /\ resp[w].status = 201 =>
           (BookErrors("body", Get(req[w].body)) = {} /\ req[w].path = <<"/", "books", "/">>)
C9_Witness ==
  \E w \in Workers :
    /\ OnBookPost(w) /\ req[w].path = <<"/", "books", "/">>
    /\ resp[w].status = 201
    /\ Field(w, "author").o["age"] = JInt(45)
    /\ Field(w, "summary") = JNull

\* C10: on POST /items/form_and_file/ a missing or ill-typed name, price or
\* file is a validation failure and never a 400 rejection, even with a
\* negative price; a negative price with an empty filename gets the
\* negative-price message, never the no-file message.
C10_CheckOrder ==
  \A w \in Workers :
    OnFormAndFile(w) =>
      /\ (~FormGiven(req[w], "name") \/ ~FormGiven(req[w], "price")
            \/ ~DecOk(req[w].form["price"]) \/ ~IsSome(req[w].file)) => Rejected(w)
      /\ (FormFieldsGiven(w) /\ IsSome(req[w].file) /\ GivenPrice(w) < 0
            /\ GivenFilename(w) = <<>>) =>
           (resp[w].status = 400 /\ Detail(w) = <<"Price cannot be negative">>)
C10_Witness ==
  \E w \in Workers :
    /\ OnFormAndFile(w) /\ ran[w]
    /\ GivenPrice(w) < 0 /\ GivenFilename(w) = <<>>
    /\ Detail(w) = <<"Price cannot be negative">>

====
